---- MODULE Spec2Model ----
(***************************************************************************)
(* A model of sncloud's client (src/sncloud/api.py) and of its command     *)
(* line (src/sncloud/cli.py).                                              *)
(*                                                                         *)
(* Strings are sequences of symbols.  "/" is the path separator, "." the   *)
(* dot, and every other symbol ("Docs", "report", ...) abbreviates a fixed *)
(* word that holds neither of them, so splitting on "/" and the test       *)
(* '"." in name' are computed on the symbols as Python computes them on    *)
(* the characters.                                                         *)
(*                                                                         *)
(* The remote service is the sequence `remote` of its entries in the order *)
(* the list endpoint returns them (order=time, sequence=desc).  Every      *)
(* handler is cut at its HTTP requests: an action is the code from one     *)
(* request (its response included) up to the next request or to the end of *)
(* the call.  Under Spec another client creates, renames and deletes       *)
(* entries between the calls of this client.                               *)
(***************************************************************************)
EXTENDS Integers, Sequences, FiniteSets, TLC

VARIABLES
    remote,        \* the entries of the service, in the order ls returns them
    created,       \* how many entries the service has created
    access_token,  \* SNClient._access_token
    xsrf_token,    \* SNClient._xsrf_token
    frame,         \* the call of the client in progress
    config_token,  \* "access_token" of ~/.config/sncloud/config.json
    cli,           \* the command of the command line in progress
    earlier        \* the result of _get_item its caller has kept

vars ==
    <<remote, created, access_token, xsrf_token, frame, config_token, cli,
      earlier>>

----------------------------------------------------------------------------
(* Bounds of the model *)

\* entries the remote service ever creates
MaxEntries == 3

\* segments of a generated path
MaxDepth == 3

\* items of a list given to delete
MaxBatch == 3

\* pages of a note the service converts to PNG
MaxPages == 1

----------------------------------------------------------------------------
(* Values *)

\* Python's None where an integer or a token is expected
None == -1

NoToken == "None"

\* the ids the service assigns, in the order it assigns them
IdOrder == <<5, 42, 7>>

EntryId(n) == IF n <= Len(IdOrder) THEN IdOrder[n] ELSE 100 + n

Docs == <<"Docs">>

Ghost == <<"Ghost">>

ReportPdf == <<"report", ".", "pdf">>

\* names the other client gives to the entries it creates or renames
EntryNames == {Docs, ReportPdf}

\* segments of the paths the callers pass
SegNames == {Docs, Ghost, ReportPdf}

\* models.File / models.Directory: the fields the client reads
Entry(id, name, dir, kind) ==
    [id |-> id, file_name |-> name, directory_id |-> dir, kind |-> kind]

\* Directory(id=0, file_name="/", parent_id=None)
RootEntry == Entry(0, <<"/">>, None, "Directory")

\* the Python value None where an entry is expected (current_dir = None)
NoEntry == Entry(None, << >>, None, "None")

\* item.parent: the directory that holds the item
ParentOf(e) == [RootEntry EXCEPT !.id = e.directory_id]

----------------------------------------------------------------------------
(* pathlib: Path(item).parts on a POSIX system *)

RECURSIVE LeadingSlashes(_)
LeadingSlashes(s) ==
    IF s # << >> /\ Head(s) = "/" THEN 1 + LeadingSlashes(Tail(s)) ELSE 0

\* split on "/"; acc is the component being read
RECURSIVE SplitComponents(_, _)
SplitComponents(s, acc) ==
    IF s = << >> THEN <<acc>>
    ELSE IF Head(s) = "/" THEN <<acc>> \o SplitComponents(Tail(s), << >>)
    ELSE SplitComponents(Tail(s), Append(acc, Head(s)))

KeepComponent(c) == c # << >> /\ c # <<".">>

\* Path(s).parts: the root ("/", or "//" for exactly two leading slashes)
\* followed by the components that are neither empty nor "."
PathParts(s) ==
    LET n == LeadingSlashes(s)
        root == IF n = 0 THEN << >>
                ELSE IF n = 2 THEN << <<"/", "/">> >>
                ELSE << <<"/">> >>
        comps == SelectSeq(SplitComponents(SubSeq(s, n + 1, Len(s)), << >>),
                           KeepComponent)
    IN  root \o comps

\* "/".join(ps)
RECURSIVE JoinSlash(_)
JoinSlash(ps) ==
    IF ps = << >> THEN << >>
    ELSE IF Len(ps) = 1 THEN ps[1]
    ELSE ps[1] \o <<"/">> \o JoinSlash(Tail(ps))

\* parts[1:] when parts[0] is "/" or "\\", parts otherwise
StripRoot(parts) ==
    IF parts # << >> /\ (parts[1] = <<"/">> \/ parts[1] = <<"\\">>)
    THEN Tail(parts)
    ELSE parts

\* "." in parts[-1]
HasDot(name) == \E k \in 1..Len(name) : name[k] = "."

IsFile(parts) == IF parts # << >> THEN HasDot(parts[Len(parts)]) ELSE FALSE

DirParts(parts) ==
    IF IsFile(parts) THEN SubSeq(parts, 1, Len(parts) - 1) ELSE parts

\* PathSoFar with the whole path in place of the prefix reached
PathSoFarWhole(parts, k) == <<"/">> \o JoinSlash(parts)

\* "/" + "/".join(parts[:i+1]), for the 1-based index k of the failing part
PathSoFar(parts, k) == <<"/">> \o JoinSlash(SubSeq(parts, 1, k))

\* f"/{'/'.join(dir_parts)}"
SearchedDir(parts) == <<"/">> \o JoinSlash(DirParts(parts))

----------------------------------------------------------------------------
(* The paths callers pass *)

SegLists == UNION {[1..n -> SegNames] : n \in 0..MaxDepth}

\* "/", "/Docs", "/Docs/report.pdf", ...
PlainPaths == {<<"/">> \o JoinSlash(segs) : segs \in SegLists}

\* other spellings: "", ".", "/.", "//", "Docs", "//Docs", "/Docs/",
\* "Docs//report.pdf", "/./Docs", and with a backslash, which is a
\* character of a component: "\\", "\\/Docs"
OddPaths ==
    {<< >>, <<".">>, <<"/", ".">>, <<"/", "/">>, Docs, <<"/", "/">> \o Docs,
     <<"/">> \o Docs \o <<"/">>, Docs \o <<"/", "/">> \o ReportPdf,
     <<"/", ".", "/">> \o Docs, <<"\\">>, <<"\\", "/">> \o Docs}

Paths == PlainPaths \cup OddPaths

----------------------------------------------------------------------------
(* The remote service *)

\* the smallest member of the set S of positions, 0 when S is empty: the
\* position at which a "for item in items: if ...: break" scan stops
FirstOf(S) == IF S = {} THEN 0 ELSE CHOOSE k \in S : \A j \in S : k <= j

\* data["userFileVOList"] for directoryId = d: the children of d, in the
\* service's order; isFolder = "Y" becomes a Directory, anything else a File
Listing(tree, d) ==
    LET InDir(e) == e.directory_id = d IN SelectSeq(tree, InDir)

RemoteIds(tree) == {tree[k].id : k \in 1..Len(tree)}

RemoteDirIds(tree) ==
    {0} \cup {tree[k].id : k \in {j \in 1..Len(tree) : tree[j].kind = "Directory"}}

RECURSIVE Descendants(_, _)
\* ids of the entries below the entries whose ids are in ids, ids included
Descendants(tree, ids) ==
    LET more == {tree[k].id : k \in {j \in 1..Len(tree) :
                                       tree[j].directory_id \in ids}}
    IN  IF more \subseteq ids THEN ids ELSE Descendants(tree, ids \cup more)

Without(tree, ids) ==
    LET Kept(e) == e.id \notin Descendants(tree, ids) IN SelectSeq(tree, Kept)

\* a new entry is the most recent one: it is listed first
Created(tree, n, name, dir, kind) ==
    <<Entry(EntryId(n), name, dir, kind)>> \o tree

----------------------------------------------------------------------------
(* What callers pass where a path, an object, an id or None is accepted *)

Ref(tag, path, entry, id) ==
    [tag |-> tag, path |-> path, entry |-> entry, id |-> id]

NoneRef == Ref("None", << >>, NoEntry, None)

IntRef(n) == Ref("int", << >>, NoEntry, n)

PathRef(p) == Ref("str", p, NoEntry, None)

EntryRef(e) == Ref("entry", << >>, e, None)

\* entries a caller can hold: the ones listed now and the root entry
HeldEntries == {remote[k] : k \in 1..Len(remote)} \cup {RootEntry}

ItemRefs == {PathRef(p) : p \in Paths} \cup {EntryRef(e) : e \in HeldEntries}

\* the paths given to the operations that normalize or resolve their
\* argument before they do their own work
OpPaths ==
    {<<"/">>, <<"/">> \o Docs, <<"/">> \o ReportPdf,
     <<"/">> \o Docs \o <<"/">> \o ReportPdf,
     <<"/">> \o Docs \o <<"/">> \o Docs}

OpItemRefs == {PathRef(p) : p \in OpPaths} \cup {EntryRef(e) : e \in HeldEntries}

OpDirRefs ==
    OpItemRefs \cup {NoneRef} \cup {IntRef(n) : n \in {0} \cup RemoteIds(remote)}

----------------------------------------------------------------------------
(* The call in progress *)

\* what a call gives its caller: a value (status "ok") or an exception
\* (status "error"), with the parts of the exception's message
Outcome(status, err, entry, id, items, what, seg, prefix) ==
    [status |-> status, err |-> err, entry |-> entry, id |-> id,
     items |-> items, what |-> what, seg |-> seg, prefix |-> prefix]

NoOutcome == Outcome("none", "", NoEntry, None, << >>, "", << >>, << >>)

Error(err) == Outcome("error", err, NoEntry, None, << >>, "", << >>, << >>)

\* FileFolderNotFound(f"{what} not found: {seg} in {prefix}")
NotFound(what, seg, prefix) ==
    Outcome("error", "FileFolderNotFound", NoEntry, None, << >>, what, seg,
            prefix)

\* FileFolderNotFound(f"Files are not in the same directory: {name}")
NotSameDirectory(name) ==
    Outcome("error", "FileFolderNotFound", NoEntry, None, << >>,
            "Files are not in the same directory", name, << >>)

ReturnEntry(e) == Outcome("ok", "", e, None, << >>, "", << >>, << >>)

ReturnId(n) == Outcome("ok", "", NoEntry, n, << >>, "", << >>, << >>)

ReturnItems(items) == Outcome("ok", "", NoEntry, None, items, "", << >>, << >>)

ReturnNone == Outcome("ok", "", NoEntry, None, << >>, "", << >>, << >>)

\* a command of the command line: its arguments, where it is, the token the
\* response callback of login-browser has captured, and how it ended (exit
\* code, what click.echo printed last, and whether an exception left the
\* command uncaught)
Command(cmd, arg, mode, pages, pages_ok, n) ==
    [cmd |-> cmd, arg |-> arg, mode |-> mode, pages |-> pages,
     pages_ok |-> pages_ok, n |-> n,
     pc |-> "start", token |-> NoToken, exit_code |-> None, echoed |-> "",
     uncaught |-> ""]

NoCommand == [Command("", NoneRef, "", << >>, TRUE, 0) EXCEPT !.pc = "off"]

\* a result of _get_item(path) the caller has kept, and whether the remote
\* tree was changed since
Kept(path, entry) ==
    [valid |-> TRUE, path |-> path, entry |-> entry, changed |-> FALSE]

NoEarlier == [Kept(<< >>, NoEntry) EXCEPT !.valid = FALSE]

IdleFrame ==
    [op |-> "idle", pc |-> "idle", arg |-> NoneRef, name |-> << >>,
     is_list |-> FALSE, remaining |-> 0, to_delete |-> << >>,
     parts |-> << >>, idx |-> 0, current_dir |-> NoEntry,
     current_items |-> << >>, item |-> NoEntry, dir_id |-> None,
     pages |-> << >>, outcome |-> NoOutcome, log |-> << >>,
     raced |-> FALSE]

NewFrame(op, arg) == [IdleFrame EXCEPT !.op = op, !.pc = "run", !.arg = arg]

\* the locals of _get_item, which end with it
Unwound(f) ==
    [f EXCEPT !.parts = << >>, !.idx = 0, !.current_dir = NoEntry,
              !.current_items = << >>]

Finish(f, out) == [Unwound(f) EXCEPT !.pc = "done", !.outcome = out]

Raise(f, err) == Finish(f, Error(err))

\* an HTTP request: the endpoint, and the directoryId or id of its payload
Req(ep, id) == [ep |-> ep, id |-> id]

Logged(f, requests) == [f EXCEPT !.log = @ \o requests]

----------------------------------------------------------------------------
(* SNClient._get_directory_id, SNClient._get_item and what follows them *)

\* Guarded without the test of the access token
Unguarded(f, onward) == onward

\* "if not self._access_token: raise AuthenticationError(...)"
Guarded(f, onward) ==
    IF access_token = NoToken THEN Raise(f, "AuthenticationError") ELSE onward

\* the operation goes on with the directory id n
GotDirId(f, n) ==
    CASE f.op = "_get_directory_id" -> Finish(f, ReturnId(n))
      [] f.op = "ls" -> [f EXCEPT !.dir_id = n, !.pc = "ls_req"]
      [] f.op = "mkdir" -> [f EXCEPT !.dir_id = n, !.pc = "mkdir_req"]
      [] f.op = "put" -> [f EXCEPT !.dir_id = n, !.pc = "apply_req"]

\* DirectoryIdOfEntry with the id of any object passed through
DirectoryIdOfAny(f, e) == GotDirId(f, e.id)

\* _get_directory_id on a File or Directory object: a Directory gives its
\* id, a File is neither a Directory nor an int
DirectoryIdOfEntry(f, e) ==
    IF e.kind = "Directory" THEN GotDirId(f, e.id) ELSE Raise(f, "ValueError")

\* DeleteReady without the comparison of the directory ids
DeleteReadyUnchecked(f) ==
    IF f.is_list /\ f.to_delete = << >> THEN Raise(f, "IndexError")
    ELSE [f EXCEPT !.pc = "delete_req"]

\* delete, once every item is resolved
DeleteReady(f) ==
    IF ~f.is_list THEN [f EXCEPT !.pc = "delete_req"]
    ELSE IF f.to_delete = << >> THEN Raise(f, "IndexError")
    ELSE LET dir_id == f.to_delete[1].directory_id
             k == FirstOf({j \in 1..Len(f.to_delete) :
                             f.to_delete[j].directory_id # dir_id})
         IN  IF k # 0
             THEN Finish(f, NotSameDirectory(f.to_delete[k].file_name))
             ELSE [f EXCEPT !.pc = "delete_req"]

\* _get_item returned the entry e
Resolved(f, e) ==
    LET g == Unwound(f) IN
    CASE f.op = "_get_item" -> Finish(g, ReturnEntry(e))
      [] f.op \in {"_get_directory_id", "ls", "mkdir", "put"} ->
            DirectoryIdOfEntry(g, e)
      [] f.op \in {"get", "get_pdf", "get_png"} ->
            [g EXCEPT !.item = e, !.pc = "get_req"]
      [] f.op = "delete" ->
            LET h == [g EXCEPT !.to_delete = Append(@, e),
                               !.remaining = @ - 1]
            IN  IF h.remaining > 0 THEN [h EXCEPT !.pc = "next_item"]
                ELSE DeleteReady(h)

\* FirstDirectoryNamed with the scan going on to the last match
LastDirectoryNamed(items, name) ==
    LET S == {k \in 1..Len(items) :
                items[k].file_name = name /\ items[k].kind = "Directory"}
    IN  IF S = {} THEN 0 ELSE CHOOSE k \in S : \A j \in S : j <= k

\* FirstNamed with only File objects matched
FirstFileNamed(items, name) ==
    FirstOf({k \in 1..Len(items) :
               items[k].file_name = name /\ items[k].kind = "File"})

\* FirstDirectoryNamed without the isinstance(item, Directory) test
FirstOfAnyKindNamed(items, name) ==
    FirstOf({k \in 1..Len(items) : items[k].file_name = name})

\* position of the first Directory named name in items, 0 when none
FirstDirectoryNamed(items, name) ==
    FirstOf({k \in 1..Len(items) :
               items[k].file_name = name /\ items[k].kind = "Directory"})

\* position of the first entry named name in items, 0 when none
FirstNamed(items, name) ==
    FirstOf({k \in 1..Len(items) : items[k].file_name = name})

\* CursorId with the root listed at every step
CursorIdRoot(f) == 0

\* directoryId of the listing the walk asks for: ls(current_dir)
CursorId(f) == IF f.current_dir = NoEntry THEN 0 ELSE f.current_dir.id

\* WalkOn with a directory segment that is not in the listing looked for
\* again in a new listing of the same directory
WalkOnRetrying(f) ==
    LET dir_parts == DirParts(f.parts)
        last == f.parts[Len(f.parts)]
    IN  IF f.idx <= Len(dir_parts)
        THEN LET m == FirstDirectoryNamed(f.current_items, dir_parts[f.idx])
             IN  IF m = 0
                 THEN Guarded(f, [f EXCEPT !.pc = "walk_ls"])
                 ELSE Guarded(f, [f EXCEPT !.current_dir = f.current_items[m],
                                           !.idx = @ + 1, !.pc = "walk_ls"])
        ELSE IF IsFile(f.parts)
        THEN LET m == FirstNamed(f.current_items, last)
             IN  IF m = 0
                 THEN Finish(f, NotFound("File", last, SearchedDir(f.parts)))
                 ELSE Resolved(f, f.current_items[m])
        ELSE Resolved(f, f.current_dir)

\* _get_item from the head of the iteration f.idx of "for i, part in
\* enumerate(dir_parts)", current_items being the listing just fetched, up
\* to its next ls or to its end
WalkOn(f) ==
    LET dir_parts == DirParts(f.parts)
        last == f.parts[Len(f.parts)]
    IN  IF f.idx <= Len(dir_parts)
        THEN LET m == FirstDirectoryNamed(f.current_items, dir_parts[f.idx])
             IN  IF m = 0
                 THEN Finish(f, NotFound("Directory", dir_parts[f.idx],
                                         PathSoFar(f.parts, f.idx)))
                 ELSE Guarded(f, [f EXCEPT !.current_dir = f.current_items[m],
                                           !.idx = @ + 1, !.pc = "walk_ls"])
        ELSE IF IsFile(f.parts)
        THEN LET m == FirstNamed(f.current_items, last)
             IN  IF m = 0
                 THEN Finish(f, NotFound("File", last, SearchedDir(f.parts)))
                 ELSE Resolved(f, f.current_items[m])
        ELSE Resolved(f, f.current_dir)

\* ResolveStart without the case item == "/": "/" has no segments and gives
\* the root Directory as the other empty paths do
ResolveStartNoRootCase(f, ref) ==
    LET g == [f EXCEPT !.arg = ref] IN
    IF ref.tag = "entry" THEN Resolved(g, ref.entry)
    ELSE IF ref.tag # "str" THEN Raise(g, "TypeError")
    ELSE LET parts == StripRoot(PathParts(ref.path))
         IN  IF parts = << >> THEN Resolved(g, RootEntry)
             ELSE Guarded(g, [g EXCEPT !.parts = parts, !.idx = 1,
                                       !.current_dir = NoEntry,
                                       !.current_items = << >>,
                                       !.pc = "walk_ls"])

\* _get_item(ref) up to its first ls or to its end
ResolveStart(f, ref) ==
    LET g == [f EXCEPT !.arg = ref] IN
    IF ref.tag = "entry" THEN Resolved(g, ref.entry)
    ELSE IF ref.tag # "str" THEN Raise(g, "TypeError")
    ELSE IF ref.path = <<"/">> THEN Guarded(g, [g EXCEPT !.pc = "root_ls"])
    ELSE LET parts == StripRoot(PathParts(ref.path))
         IN  IF parts = << >> THEN Resolved(g, RootEntry)
             ELSE Guarded(g, [g EXCEPT !.parts = parts, !.idx = 1,
                                       !.current_dir = NoEntry,
                                       !.current_items = << >>,
                                       !.pc = "walk_ls"])

\* directory is None or directory == 0 or directory == "/"
IsRootRef(ref) ==
    \/ ref.tag = "None"
    \/ ref.tag = "int" /\ ref.id = 0
    \/ ref.tag = "str" /\ ref.path = <<"/">>

\* _get_directory_id(ref) up to its first ls or to its end
Normalize(f, ref) ==
    IF IsRootRef(ref) THEN GotDirId(f, 0)
    ELSE IF ref.tag = "str" THEN ResolveStart(f, ref)
    ELSE IF ref.tag = "entry" THEN DirectoryIdOfEntry(f, ref.entry)
    ELSE GotDirId(f, ref.id)

----------------------------------------------------------------------------
(* SNClient._api_call *)

\* what the GET of the csrf endpoint gives: the X-Xsrf-Token header, a
\* response without it, or no response
XsrfOutcomes == {"token", "missing", "error"}

\* what a POST gives: a JSON body, or an error status or a transport error
ListStatuses == {"ok", "no_list", "http_error"}

\* a JSON body with success true, one with success false, or an error
CallStatuses == {"ok", "refused", "http_error"}

\* where a call is when its next step is a call of _api_call
ApiCallPcs ==
    {"root_ls", "walk_ls", "ls_req", "get_req", "mkdir_req", "apply_req",
     "finish_req", "delete_req", "code_req", "login_req"}

\* Initialised with the token never taken as held
NeverInitialised == FALSE

\* "if self._xsrf_token: return" of _init_session
Initialised == xsrf_token # NoToken

\* _init_session of an _api_call when no token is held: the GET of the csrf
\* endpoint; the POST of the _api_call is the next step of the call
InitSession(x) ==
    /\ frame.pc \in ApiCallPcs
    /\ ~Initialised
    /\ frame' = LET g == Logged(frame, <<Req("csrf", None)>>)
                IN  IF x = "token" THEN g
                    ELSE IF x = "missing" THEN Raise(g, "ApiError")
                    ELSE Raise(g, "HTTPError")
    /\ xsrf_token' = IF x = "token" THEN "xsrf" ELSE xsrf_token
    /\ UNCHANGED <<remote, created, access_token>>
    /\ UNCHANGED <<config_token, cli, earlier>>

\* the frame after the POST of _api_call(ep, {id, ...}): json is the frame
\* when the POST returned a JSON body
ApiCall(f, ep, id, status, json) ==
    IF status = "http_error"
    THEN Raise(Logged(f, <<Req(ep, id)>>), "HTTPError")
    ELSE json

\* the frame with the request of a POST that was answered
Posted(f, ep, id) == Logged(f, <<Req(ep, id)>>)

\* data["userFileVOList"] of an answered ls, KeyError without it
Listed(f, status, onward) ==
    IF status = "no_list" THEN Raise(f, "KeyError") ELSE onward

----------------------------------------------------------------------------
(* Calls of the resolver and of ls, and their requests *)

\* no call and no command in progress
Idle == frame.pc = "idle" /\ cli.pc = "off"

\* CallGetItem with the entry kept for the path returned again
CallGetItemKept(ref) ==
    /\ Idle
    /\ frame' = LET f == NewFrame("_get_item", ref)
                IN  IF earlier.valid /\ ref = PathRef(earlier.path)
                    THEN Finish(f, ReturnEntry(earlier.entry))
                    ELSE ResolveStart(f, ref)
    /\ UNCHANGED <<remote, created, access_token, xsrf_token>>
    /\ UNCHANGED <<config_token, cli, earlier>>

CallGetItem(ref) ==
    /\ Idle
    /\ frame' = ResolveStart(NewFrame("_get_item", ref), ref)
    /\ UNCHANGED <<remote, created, access_token, xsrf_token>>
    /\ UNCHANGED <<config_token, cli, earlier>>

CallGetDirectoryId(ref) ==
    /\ Idle
    /\ frame' = Normalize(NewFrame("_get_directory_id", ref), ref)
    /\ UNCHANGED <<remote, created, access_token, xsrf_token>>
    /\ UNCHANGED <<config_token, cli, earlier>>

\* ls(ref) up to its first request or to its end
Ls(ref) == LET f == NewFrame("ls", ref) IN Guarded(f, Normalize(f, ref))

CallLs(ref) ==
    /\ Idle
    /\ frame' = Ls(ref)
    /\ UNCHANGED <<remote, created, access_token, xsrf_token>>
    /\ UNCHANGED <<config_token, cli, earlier>>

\* RootOf with the first item returned in place of its parent
RootOfFirstItem(items) == IF items # << >> THEN items[1] ELSE RootEntry

\* _get_item("/") once ls() gave items: items[0].parent, the root
\* Directory when there is no item
RootOf(items) == IF items # << >> THEN ParentOf(items[1]) ELSE RootEntry

\* the ls() of _get_item("/") and what follows it
ListRoot(status) ==
    /\ frame.pc = "root_ls"
    /\ Initialised
    /\ UNCHANGED xsrf_token
    /\ frame' =
         LET g == Posted(frame, "ls", 0)
         IN  ApiCall(frame, "ls", 0, status,
                 Listed(g, status, Resolved(g, RootOf(Listing(remote, 0)))))
    /\ UNCHANGED <<remote, created, access_token>>
    /\ UNCHANGED <<config_token, cli, earlier>>

\* an ls(current_dir) of the walk and what follows it
WalkList(status) ==
    /\ frame.pc = "walk_ls"
    /\ Initialised
    /\ UNCHANGED xsrf_token
    /\ frame' =
         LET d == CursorId(frame)
             g == Posted(frame, "ls", d)
         IN  ApiCall(frame, "ls", d, status,
                 Listed(g, status,
                     WalkOn([g EXCEPT !.current_items = Listing(remote, d)])))
    /\ UNCHANGED <<remote, created, access_token>>
    /\ UNCHANGED <<config_token, cli, earlier>>

\* the request of ls itself
LsRequest(status) ==
    /\ frame.pc = "ls_req"
    /\ Initialised
    /\ UNCHANGED xsrf_token
    /\ frame' =
         LET g == Posted(frame, "ls", frame.dir_id)
         IN  ApiCall(frame, "ls", frame.dir_id, status,
                 Listed(g, status,
                     Finish(g, ReturnItems(Listing(remote, frame.dir_id)))))
    /\ UNCHANGED <<remote, created, access_token>>
    /\ UNCHANGED <<config_token, cli, earlier>>

----------------------------------------------------------------------------
(* get, get_pdf, get_png *)

\* page_numbers as callers pass it: the default [], or page 1
PageArgs == {<< >>, <<1>>}

\* the loop "for page in page_numbers" of get_png at its head: pngs[page]
\* for the next page, over the pages 1..f.dir_id the service converted
NextPage(f) ==
    IF f.pages = << >> THEN Finish(f, ReturnNone)
    ELSE IF Head(f.pages) \notin 1..f.remaining THEN Raise(f, "KeyError")
    ELSE [f EXCEPT !.pc = "url_get"]

\* get, get_pdf or get_png up to its first request or to its end
Get(op, ref, pages) ==
    LET f == [NewFrame(op, ref) EXCEPT !.pages = pages]
    IN  Guarded(f, ResolveStart(f, ref))

CallGet(op, ref, pages) ==
    /\ Idle
    /\ frame' = Get(op, ref, pages)
    /\ UNCHANGED <<remote, created, access_token, xsrf_token>>
    /\ UNCHANGED <<config_token, cli, earlier>>

\* the POST that asks for the signed url(s); k pages were converted
GetRequest(status, k) ==
    /\ frame.pc = "get_req"
    /\ Initialised
    /\ UNCHANGED xsrf_token
    /\ frame' =
         LET g == Posted(frame, frame.op, frame.item.id)
         IN  ApiCall(frame, frame.op, frame.item.id, status,
                 IF status = "refused" THEN Raise(g, "ApiError")
                 ELSE IF frame.op # "get_png" THEN [g EXCEPT !.pc = "url_get"]
                 ELSE NextPage([g EXCEPT
                          !.remaining = k,
                          !.pages = IF @ = << >> THEN [p \in 1..k |-> p]
                                    ELSE @]))
    /\ UNCHANGED <<remote, created, access_token>>
    /\ UNCHANGED <<config_token, cli, earlier>>

\* what the GET of a signed url gives
UrlStatuses == {"ok", "bad_status", "transport_error"}

\* what open(target, "wb") does where the target is not a directory: the
\* file is written, or the directory of the target refuses the new file
WriteOutcomes == {"written", "refused"}

\* the error of the open(..., "wb") of an operation for the entry named name,
\* "" when the file is written.  The output directory is "." and is
\* writable.  get opens path / Path(file_name): for the root entry that is
\* Path("/"), a directory.  get_pdf opens file_name[:-5] + ".pdf", for the
\* root entry ".pdf" in the output directory.  get_png opens
\* file_name + "_<page>.png", for the root entry a file in the root of the
\* file system, which the process may or may not be allowed to create.
WriteError(op, name, w) ==
    IF name # <<"/">> \/ op = "get_pdf" THEN ""
    ELSE IF op = "get" THEN "IsADirectoryError"
    ELSE IF w = "refused" THEN "PermissionError"
    ELSE ""

\* the GET of a signed url and the file written from it; only get_pdf and
\* get_png call raise_for_status
UrlFetch(status, w) ==
    /\ frame.pc = "url_get"
    /\ frame' =
         LET g == Logged(frame, <<Req("url", frame.item.id)>>)
             err == WriteError(frame.op, frame.item.file_name, w)
         IN  IF status = "transport_error" THEN Raise(g, "HTTPError")
             ELSE IF status = "bad_status" /\ frame.op # "get"
             THEN Raise(g, "HTTPError")
             ELSE IF err # "" THEN Raise(g, err)
             ELSE IF frame.op = "get_png"
             THEN NextPage([g EXCEPT !.pages = Tail(@)])
             ELSE Finish(g, ReturnNone)
    /\ UNCHANGED <<remote, created, access_token, xsrf_token>>
    /\ UNCHANGED <<config_token, cli, earlier>>

----------------------------------------------------------------------------
(* mkdir *)

\* the service can add an entry to the directory d
CanCreate(d) == created < MaxEntries /\ d \in RemoteDirIds(remote)

\* mkdir(name, ref) up to its first request or to its end
Mkdir(name, ref) ==
    LET f == [NewFrame("mkdir", ref) EXCEPT !.name = name]
    IN  Guarded(f, Normalize(f, ref))

CallMkdir(name, ref) ==
    /\ Idle
    /\ frame' = Mkdir(name, ref)
    /\ UNCHANGED <<remote, created, access_token, xsrf_token>>
    /\ UNCHANGED <<config_token, cli, earlier>>

MkdirRequest(status) ==
    /\ frame.pc = "mkdir_req"
    /\ Initialised
    /\ UNCHANGED xsrf_token
    /\ LET done == status = "ok"
           g == Posted(frame, "mkdir", frame.dir_id)
       IN  /\ done => CanCreate(frame.dir_id)
           /\ frame' = ApiCall(frame, "mkdir", frame.dir_id, status,
                           IF status = "refused" THEN Raise(g, "ApiError")
                           ELSE Finish(g, ReturnNone))
           /\ remote' = IF done
                        THEN Created(remote, created + 1, frame.name,
                                     frame.dir_id, "Directory")
                        ELSE remote
           /\ created' = IF done THEN created + 1 ELSE created
    /\ UNCHANGED access_token
    /\ UNCHANGED <<config_token, cli, earlier>>

----------------------------------------------------------------------------
(* put *)

\* put(name, ref) up to its first request or to its end; exists says
\* whether the local file is there
Put(name, exists, ref) ==
    LET f == [NewFrame("put", ref) EXCEPT !.name = name]
    IN  Guarded(f, IF ~exists THEN Raise(f, "FileNotFoundError")
                   ELSE Normalize(f, ref))

CallPut(name, exists, ref) ==
    /\ Idle
    /\ frame' = Put(name, exists, ref)
    /\ UNCHANGED <<remote, created, access_token, xsrf_token>>
    /\ UNCHANGED <<config_token, cli, earlier>>

UploadApply(status) ==
    /\ frame.pc = "apply_req"
    /\ Initialised
    /\ UNCHANGED xsrf_token
    /\ frame' =
         LET g == Posted(frame, "upload_apply", frame.dir_id)
         IN  ApiCall(frame, "upload_apply", frame.dir_id, status,
                 IF status = "refused" THEN Raise(g, "ApiError")
                 ELSE [g EXCEPT !.pc = "s3_put"])
    /\ UNCHANGED <<remote, created, access_token>>
    /\ UNCHANGED <<config_token, cli, earlier>>

\* what the PUT to the signed url gives
PutStatuses == {"200", "other", "transport_error"}

\* the direct PUT; on another status the code evaluates data.text on the
\* dict data, which raises AttributeError
UploadPut(status) ==
    /\ frame.pc = "s3_put"
    /\ frame' =
         LET g == Logged(frame, <<Req("s3_put", frame.dir_id)>>)
         IN  IF status = "transport_error" THEN Raise(g, "HTTPError")
             ELSE IF status # "200" THEN Raise(g, "AttributeError")
             ELSE [g EXCEPT !.pc = "finish_req"]
    /\ UNCHANGED <<remote, created, access_token, xsrf_token>>
    /\ UNCHANGED <<config_token, cli, earlier>>

\* the finish call: its JSON body is not looked at
UploadFinish(status) ==
    /\ frame.pc = "finish_req"
    /\ Initialised
    /\ UNCHANGED xsrf_token
    /\ LET done == status = "ok"
           g == Posted(frame, "upload_finish", frame.dir_id)
       IN  /\ done => CanCreate(frame.dir_id)
           /\ frame' = ApiCall(frame, "upload_finish", frame.dir_id,
                               status, Finish(g, ReturnNone))
           /\ remote' = IF done
                        THEN Created(remote, created + 1, frame.name,
                                     frame.dir_id, "File")
                        ELSE remote
           /\ created' = IF done THEN created + 1 ELSE created
    /\ UNCHANGED access_token
    /\ UNCHANGED <<config_token, cli, earlier>>

----------------------------------------------------------------------------
(* delete *)

\* delete(item) for one path or object
CallDelete(ref) ==
    /\ Idle
    /\ frame' = LET f == [NewFrame("delete", ref) EXCEPT !.remaining = 1]
                IN  Guarded(f, ResolveStart(f, ref))
    /\ UNCHANGED <<remote, created, access_token, xsrf_token>>
    /\ UNCHANGED <<config_token, cli, earlier>>

\* delete(items) for a list of n items; the items are read one by one by
\* "[self._get_item(i) for i in item]"
DeleteList(n) ==
    LET f == [NewFrame("delete", NoneRef) EXCEPT
                  !.is_list = TRUE, !.remaining = n]
    IN  Guarded(f, IF n = 0 THEN DeleteReady(f)
                   ELSE [f EXCEPT !.pc = "next_item"])

CallDeleteList(n) ==
    /\ Idle
    /\ frame' = DeleteList(n)
    /\ UNCHANGED <<remote, created, access_token, xsrf_token>>
    /\ UNCHANGED <<config_token, cli, earlier>>

\* the next item of the list is ref
DeleteItem(ref) ==
    /\ frame.pc = "next_item"
    /\ frame' = ResolveStart(frame, ref)
    /\ UNCHANGED <<remote, created, access_token, xsrf_token>>
    /\ UNCHANGED <<config_token, cli, earlier>>

\* [i.id for i in to_delete]
IdList(f) == {f.to_delete[k].id : k \in 1..Len(f.to_delete)}

\* the entries the service deletes for {directoryId, idList}
Deleted(tree, dir, ids) ==
    {tree[k].id : k \in {j \in 1..Len(tree) :
                           tree[j].id \in ids /\ tree[j].directory_id = dir}}

DeleteRequest(status) ==
    /\ frame.pc = "delete_req"
    /\ Initialised
    /\ UNCHANGED xsrf_token
    /\ LET dir == frame.to_delete[1].directory_id
           done == status = "ok"
           g == Posted(frame, "delete", dir)
       IN  /\ frame' = ApiCall(frame, "delete", dir, status,
                           IF status = "refused" THEN Raise(g, "ApiError")
                           ELSE Finish(g, ReturnNone))
           /\ remote' = IF done
                        THEN Without(remote, Deleted(remote, dir, IdList(frame)))
                        ELSE remote
    /\ UNCHANGED <<created, access_token>>
    /\ UNCHANGED <<config_token, cli, earlier>>

----------------------------------------------------------------------------
(* login *)

\* login(email, password) up to the request of _get_random_code
Login == [NewFrame("login", NoneRef) EXCEPT !.pc = "code_req"]

CallLogin ==
    /\ Idle
    /\ frame' = Login
    /\ UNCHANGED <<remote, created, access_token, xsrf_token>>
    /\ UNCHANGED <<config_token, cli, earlier>>

\* _get_random_code
CodeRequest(status) ==
    /\ frame.pc = "code_req"
    /\ Initialised
    /\ UNCHANGED xsrf_token
    /\ frame' =
         LET g == Posted(frame, "code", None)
         IN  ApiCall(frame, "code", None, status,
                 IF status = "refused" THEN Raise(g, "ApiError")
                 ELSE [g EXCEPT !.pc = "login_req"])
    /\ UNCHANGED <<remote, created, access_token>>
    /\ UNCHANGED <<config_token, cli, earlier>>

LoginRequest(status) ==
    /\ frame.pc = "login_req"
    /\ Initialised
    /\ UNCHANGED xsrf_token
    /\ frame' =
         LET g == Posted(frame, "login", None)
         IN  ApiCall(frame, "login", None, status,
                 IF status = "refused" THEN Raise(g, "AuthenticationError")
                 ELSE Finish(g, ReturnNone))
    /\ access_token' = IF status = "ok" THEN "token"
                       ELSE access_token
    /\ UNCHANGED <<remote, created>>
    /\ UNCHANGED <<config_token, cli, earlier>>

----------------------------------------------------------------------------

\* the caller has the result or the exception
Return ==
    /\ frame.pc = "done"
    /\ cli.pc = "off"
    /\ frame' = IdleFrame
    /\ UNCHANGED <<remote, created, access_token, xsrf_token>>
    /\ UNCHANGED <<config_token, cli, earlier>>

\* the caller keeps the entry _get_item(path) returned, or nothing when it
\* raised
Keep ==
    /\ frame.pc = "done"
    /\ frame.op = "_get_item"
    /\ cli.pc = "off"
    /\ earlier' = IF frame.outcome.status = "ok"
                  THEN Kept(frame.arg.path, frame.outcome.entry)
                  ELSE NoEarlier
    /\ frame' = IdleFrame
    /\ UNCHANGED <<remote, created, access_token, xsrf_token>>
    /\ UNCHANGED <<config_token, cli>>

----------------------------------------------------------------------------
(* Another client of the service *)

\* a result kept from before the change is of an earlier tree
Stale(kept) == IF kept.valid THEN [kept EXCEPT !.changed = TRUE] ELSE kept

RemoteCreate(name, dir, kind) ==
    /\ Idle
    /\ created < MaxEntries
    /\ dir \in RemoteDirIds(remote)
    /\ remote' = Created(remote, created + 1, name, dir, kind)
    /\ created' = created + 1
    /\ UNCHANGED <<access_token, xsrf_token, frame>>
    /\ earlier' = Stale(earlier)
    /\ UNCHANGED <<config_token, cli>>

RemoteRename(k, name) ==
    /\ Idle
    /\ k \in 1..Len(remote)
    /\ remote[k].file_name # name
    /\ remote' = [remote EXCEPT ![k].file_name = name]
    /\ UNCHANGED <<created, access_token, xsrf_token, frame>>
    /\ earlier' = Stale(earlier)
    /\ UNCHANGED <<config_token, cli>>

RemoteDelete(k) ==
    /\ Idle
    /\ k \in 1..Len(remote)
    /\ remote' = Without(remote, {remote[k].id})
    /\ UNCHANGED <<created, access_token, xsrf_token, frame>>
    /\ earlier' = Stale(earlier)
    /\ UNCHANGED <<config_token, cli>>

\* a walk is in progress: it is about to fetch the token or to ask for a
\* listing
MidWalk == frame.pc \in {"root_ls", "walk_ls"}

\* the other client creates, renames or deletes an entry between two
\* requests of a walk
RaceCreate(name, dir, kind) ==
    /\ MidWalk
    /\ created < MaxEntries
    /\ dir \in RemoteDirIds(remote)
    /\ remote' = Created(remote, created + 1, name, dir, kind)
    /\ created' = created + 1
    /\ frame' = [frame EXCEPT !.raced = TRUE]
    /\ UNCHANGED <<access_token, xsrf_token>>
    /\ UNCHANGED <<config_token, cli, earlier>>

RaceRename(k, name) ==
    /\ MidWalk
    /\ k \in 1..Len(remote)
    /\ remote[k].file_name # name
    /\ remote' = [remote EXCEPT ![k].file_name = name]
    /\ frame' = [frame EXCEPT !.raced = TRUE]
    /\ UNCHANGED <<created, access_token, xsrf_token>>
    /\ UNCHANGED <<config_token, cli, earlier>>

RaceDelete(k) ==
    /\ MidWalk
    /\ k \in 1..Len(remote)
    /\ remote' = Without(remote, {remote[k].id})
    /\ frame' = [frame EXCEPT !.raced = TRUE]
    /\ UNCHANGED <<created, access_token, xsrf_token>>
    /\ UNCHANGED <<config_token, cli, earlier>>

\* the caller lets go of the result of the call and of the entry it kept
Drop ==
    /\ frame.pc = "done"
    /\ cli.pc = "off"
    /\ earlier' = NoEarlier
    /\ frame' = IdleFrame
    /\ UNCHANGED <<remote, created, access_token, xsrf_token>>
    /\ UNCHANGED <<config_token, cli>>

----------------------------------------------------------------------------
(* cli.py: the commands login, login-browser, ls, get, mkdir, put and rm.  *)
(* A command is a process of its own: it makes its client, and ends with   *)
(* an exit code.                                                           *)

\* the paths given on the command line
CliRefs ==
    {PathRef(<<"/">>), PathRef(<<"/">> \o Docs),
     PathRef(<<"/">> \o Docs \o <<"/">> \o ReportPdf)}

\* the command lines: "get" with --pdf, --png or neither and with --pages
\* absent, "1" or not a list of integers; "mkdir Docs" and "put report.pdf"
\* with or without --parent; "rm" with 0..MaxBatch paths
Commands ==
    {Command("login", NoneRef, "", << >>, TRUE, 0),
     Command("login-browser", NoneRef, "", << >>, TRUE, 0)}
    \cup {Command("ls", ref, "", << >>, TRUE, 0) : ref \in CliRefs \cup {NoneRef}}
    \cup {Command("get", ref, mode, << >>, ok, 0) :
              ref \in CliRefs, mode \in {"get", "get_pdf"}, ok \in BOOLEAN}
    \cup {Command("get", ref, "get_png", pages, TRUE, 0) :
              ref \in CliRefs, pages \in PageArgs}
    \cup {Command("mkdir", ref, "", << >>, TRUE, 0) : ref \in CliRefs \cup {NoneRef}}
    \cup {Command("put", ref, "", << >>, TRUE, 0) : ref \in CliRefs \cup {NoneRef}}
    \cup {Command("rm", NoneRef, "", << >>, TRUE, n) : n \in 0..MaxBatch}

\* the call of the client a command makes in its try block; click has
\* checked that the file given to put exists
Operation(c) ==
    CASE c.cmd = "ls" -> Ls(c.arg)
      [] c.cmd = "get" -> Get(c.mode, c.arg, c.pages)
      [] c.cmd = "mkdir" -> Mkdir(Docs, c.arg)
      [] c.cmd = "put" -> Put(ReportPdf, TRUE, c.arg)
      [] c.cmd = "rm" -> DeleteList(c.n)

\* click.echo(msg) and the end of the command: exit(code), or its return
Exit(c, code, msg) ==
    [c EXCEPT !.pc = "exit", !.exit_code = code, !.echoed = msg]

\* the exception err leaves the command: the interpreter prints its
\* traceback and ends with status 1
Uncaught(c, err) ==
    [c EXCEPT !.pc = "exit", !.exit_code = 1, !.uncaught = err]

\* what the except blocks of the commands print
ErrorMessages ==
    {"Error", "Error: Pages must be comma-separated integers",
     "Authentication failed", "Login failed",
     "Playwright not installed", "Login failed. Please try again."}

\* a command starts: login makes a client and logs in; login-browser makes
\* no client; the other commands call get_client, which makes a client and
\* gives it the stored token
Run(c) ==
    /\ Idle
    /\ access_token' = IF c.cmd \in {"login", "login-browser"} THEN NoToken
                       ELSE config_token
    /\ xsrf_token' = NoToken
    /\ frame' = IF c.cmd = "login" THEN Login ELSE frame
    /\ cli' = [c EXCEPT !.pc = CASE c.cmd = "login" -> "login"
                                 [] c.cmd = "login-browser" -> "browser"
                                 [] OTHER -> "get_client"]
    /\ UNCHANGED <<remote, created, config_token, earlier>>

\* click.echo(msg) in the course of a command
Echo(c, msg) == [c EXCEPT !.echoed = msg]

\* how a call of playwright ends
CallOutcomes == {"ok", "error"}

\* login_browser, cut where it waits: at the prompts and at the calls of
\* playwright, during which the response callback may run.  A call of
\* playwright that raises is in no try block: the exception leaves the
\* command.

\* the import of playwright, the only step with an except clause
ImportPlaywright(installed) ==
    /\ cli.pc = "browser"
    /\ cli' = IF installed THEN [cli EXCEPT !.pc = "prompt"]
              ELSE Exit(cli, 1, "Playwright not installed")
    /\ UNCHANGED <<remote, created, access_token, xsrf_token, frame,
                   config_token, earlier>>

\* the prompts are answered; the browser, its context and its page are made
\* and the callback is registered (token = None)
Launch(o) ==
    /\ cli.pc = "prompt"
    /\ cli' = IF o = "error"
              THEN Uncaught(Echo(cli, "Launching browser..."), "PlaywrightError")
              ELSE [Echo(cli, "Loading login page...") EXCEPT !.pc = "goto"]
    /\ UNCHANGED <<remote, created, access_token, xsrf_token, frame,
                   config_token, earlier>>

\* page.goto and page.wait_for_load_state have returned
LoadPage(o) ==
    /\ cli.pc = "goto"
    /\ cli' = IF o = "error" THEN Uncaught(cli, "PlaywrightError")
              ELSE [Echo(cli, "Filling credentials...") EXCEPT !.pc = "fill"]
    /\ UNCHANGED <<remote, created, access_token, xsrf_token, frame,
                   config_token, earlier>>

\* the two page.fill of the credentials and the checkbox, whose errors are
\* swallowed
FillCredentials(o) ==
    /\ cli.pc = "fill"
    /\ cli' = IF o = "error" THEN Uncaught(cli, "PlaywrightError")
              ELSE [Echo(cli, "Clicking login...") EXCEPT !.pc = "click"]
    /\ UNCHANGED <<remote, created, access_token, xsrf_token, frame,
                   config_token, earlier>>

\* page.click of the login button; page.wait_for_timeout(3000) follows
ClickLogin(o) ==
    /\ cli.pc = "click"
    /\ cli' = IF o = "error" THEN Uncaught(cli, "PlaywrightError")
              ELSE [cli EXCEPT !.pc = "wait"]
    /\ UNCHANGED <<remote, created, access_token, xsrf_token, frame,
                   config_token, earlier>>

\* the wait has ended: when the verification input is visible the code is
\* prompted for, filled in and confirmed, and page.wait_for_timeout(5000)
\* follows
Verify(visible, o) ==
    /\ cli.pc = "wait"
    /\ cli' = LET c == IF visible THEN Echo(cli, "Verification required")
                         ELSE cli
              IN  IF o = "error" THEN Uncaught(c, "PlaywrightError")
                  ELSE IF visible THEN [c EXCEPT !.pc = "confirm"]
                  ELSE [c EXCEPT !.pc = "close"]
    /\ UNCHANGED <<remote, created, access_token, xsrf_token, frame,
                   config_token, earlier>>

\* the wait after the confirmation has ended
Confirmed(o) ==
    /\ cli.pc = "confirm"
    /\ cli' = IF o = "error" THEN Uncaught(cli, "PlaywrightError")
              ELSE [cli EXCEPT !.pc = "close"]
    /\ UNCHANGED <<remote, created, access_token, xsrf_token, frame,
                   config_token, earlier>>

\* handle_response, run by playwright while login_browser waits in one of
\* its calls, from page.on to browser.close(): the response is one of
\* login/new with status 200, success and a token, or it is not
HandleResponse(carries_token) ==
    /\ cli.pc \in {"goto", "fill", "click", "wait", "confirm", "close"}
    /\ cli' = IF carries_token THEN [cli EXCEPT !.token = "token"] ELSE cli
    /\ UNCHANGED <<remote, created, access_token, xsrf_token, frame,
                   config_token, earlier>>

\* browser.close() and "if token:": the token is saved and success echoed,
\* or the failure is echoed and exit(1) called, all inside the with block
CloseBrowser(o) ==
    /\ cli.pc = "close"
    /\ IF o = "error"
       THEN /\ cli' = Uncaught(cli, "PlaywrightError")
            /\ config_token' = config_token
       ELSE IF cli.token # NoToken
       THEN /\ cli' = [Echo(cli, "Login successful!") EXCEPT
                          !.pc = "leave", !.exit_code = 0]
            /\ config_token' = cli.token
       ELSE /\ cli' = [Echo(cli, "Login failed. Please try again.") EXCEPT
                          !.pc = "leave", !.exit_code = 1]
            /\ config_token' = config_token
    /\ UNCHANGED <<remote, created, access_token, xsrf_token, frame, earlier>>

\* the with block of sync_playwright() is left, by the end of its body or
\* by the SystemExit of exit(1): an exception of its __exit__ leaves the
\* command, after the token was saved
LeaveBrowser(o) ==
    /\ cli.pc = "leave"
    /\ cli' = IF o = "error" THEN Uncaught(cli, "PlaywrightError")
              ELSE [cli EXCEPT !.pc = "exit"]
    /\ UNCHANGED <<remote, created, access_token, xsrf_token, frame,
                   config_token, earlier>>

\* ensure_authenticated(None): a new client logs in
EnsureAuthenticated ==
    /\ access_token' = NoToken
    /\ xsrf_token' = NoToken
    /\ frame' = Login
    /\ cli' = [cli EXCEPT !.pc = "login",
                          !.echoed = "Authentication required. Please login."]

\* get_client from "if token:": ls() validates the token
GetClient ==
    /\ cli.pc = "get_client"
    /\ IF config_token # NoToken
       THEN /\ frame' = Ls(NoneRef)
            /\ cli' = [cli EXCEPT !.pc = "validate"]
            /\ UNCHANGED <<access_token, xsrf_token>>
       ELSE EnsureAuthenticated
    /\ UNCHANGED <<remote, created, config_token, earlier>>

\* the body of a command after ensure_authenticated returned the client
Proceed ==
    IF cli.cmd = "get" /\ ~cli.pages_ok
    THEN /\ cli' = Exit(cli, 1, "Error: Pages must be comma-separated integers")
         /\ frame' = frame
    ELSE /\ cli' = [cli EXCEPT !.pc = "op"]
         /\ frame' = Operation(cli)

\* the ls() of get_client has ended: only AuthenticationError and ApiError
\* are caught
Validated ==
    /\ cli.pc = "validate"
    /\ frame.pc = "done"
    /\ IF frame.outcome.status = "ok"
       THEN Proceed /\ UNCHANGED <<access_token, xsrf_token>>
       ELSE IF frame.outcome.err \in {"AuthenticationError", "ApiError"}
       THEN EnsureAuthenticated
       ELSE /\ cli' = Uncaught(cli, frame.outcome.err)
            /\ UNCHANGED <<frame, access_token, xsrf_token>>
    /\ UNCHANGED <<remote, created, config_token, earlier>>

\* the login of ensure_authenticated or of the login command has ended:
\* only AuthenticationError is caught
LoggedIn ==
    /\ cli.pc = "login"
    /\ frame.pc = "done"
    /\ IF frame.outcome.status = "ok"
       THEN /\ config_token' = access_token
            /\ IF cli.cmd = "login"
               THEN cli' = Exit(cli, 0, "Login successful") /\ frame' = frame
               ELSE Proceed
       ELSE /\ config_token' = config_token
            /\ frame' = frame
            /\ cli' = IF frame.outcome.err # "AuthenticationError"
                      THEN Uncaught(cli, frame.outcome.err)
                      ELSE IF cli.cmd = "login" THEN Exit(cli, 1, "Login failed")
                      ELSE Exit(cli, 1, "Authentication failed")
    /\ UNCHANGED <<remote, created, access_token, xsrf_token, earlier>>

\* the call in the try block of a command has ended: "except Exception"
Finished ==
    /\ cli.pc = "op"
    /\ frame.pc = "done"
    /\ cli' = IF frame.outcome.status = "ok" THEN Exit(cli, 0, "result")
              ELSE Exit(cli, 1, "Error")
    /\ UNCHANGED <<remote, created, access_token, xsrf_token, frame,
                   config_token, earlier>>

\* the process has ended, and its client with it
Exited ==
    /\ cli.pc = "exit"
    /\ cli' = NoCommand
    /\ frame' = IdleFrame
    /\ access_token' = NoToken
    /\ xsrf_token' = NoToken
    /\ UNCHANGED <<remote, created, config_token, earlier>>

----------------------------------------------------------------------------
(* Spec: the resolver and the normalizer against a service another client  *)
(* changes between the calls                                               *)

Init ==
    /\ remote = << >>
    /\ created = 0
    /\ access_token \in {NoToken, "token"}
    /\ xsrf_token = NoToken
    /\ frame = IdleFrame
    /\ config_token = NoToken
    /\ cli = NoCommand
    /\ earlier = NoEarlier

Next ==
    \/ \E x \in XsrfOutcomes : InitSession(x)
    \/ \E ref \in ItemRefs \cup {NoneRef} : CallGetItem(ref)
    \/ \E ref \in OpDirRefs : CallGetDirectoryId(ref)
    \/ \E status \in ListStatuses : ListRoot(status)
    \/ \E status \in ListStatuses : WalkList(status)
    \/ Return
    \/ \E name \in EntryNames, dir \in RemoteDirIds(remote),
          kind \in {"File", "Directory"} : RemoteCreate(name, dir, kind)
    \/ \E k \in 1..Len(remote), name \in EntryNames : RemoteRename(k, name)
    \/ \E k \in 1..Len(remote) : RemoteDelete(k)

Spec == Init /\ [][Next]_vars

----------------------------------------------------------------------------
(* SpecClient: every operation of the client, on a service only this      *)
(* client changes                                                          *)

\* mkdir makes directories named Docs, put uploads files named report.pdf
NextClient ==
    \/ \E x \in XsrfOutcomes : InitSession(x)
    \/ \E ref \in OpItemRefs : CallGetItem(ref)
    \/ \E ref \in OpDirRefs : CallGetDirectoryId(ref)
    \/ \E ref \in OpDirRefs : CallLs(ref)
    \/ \E op \in {"get", "get_pdf"}, ref \in OpItemRefs : CallGet(op, ref, << >>)
    \/ \E ref \in OpItemRefs, pages \in PageArgs : CallGet("get_png", ref, pages)
    \/ \E ref \in OpDirRefs : CallMkdir(Docs, ref)
    \/ \E exists \in BOOLEAN, ref \in OpDirRefs : CallPut(ReportPdf, exists, ref)
    \/ \E ref \in OpItemRefs : CallDelete(ref)
    \/ \E n \in 0..MaxBatch : CallDeleteList(n)
    \/ \E ref \in OpItemRefs : DeleteItem(ref)
    \/ CallLogin
    \/ \E status \in ListStatuses : ListRoot(status)
    \/ \E status \in ListStatuses : WalkList(status)
    \/ \E status \in ListStatuses : LsRequest(status)
    \/ \E status \in CallStatuses, k \in 0..MaxPages :
          GetRequest(status, k)
    \/ \E status \in UrlStatuses, w \in WriteOutcomes : UrlFetch(status, w)
    \/ \E status \in CallStatuses : MkdirRequest(status)
    \/ \E status \in CallStatuses : UploadApply(status)
    \/ \E status \in PutStatuses : UploadPut(status)
    \/ \E status \in CallStatuses : UploadFinish(status)
    \/ \E status \in CallStatuses : DeleteRequest(status)
    \/ \E status \in CallStatuses : CodeRequest(status)
    \/ \E status \in CallStatuses : LoginRequest(status)
    \/ Return

InitClient ==
    /\ remote = << >>
    /\ created = 0
    /\ access_token = NoToken
    /\ xsrf_token = NoToken
    /\ frame = IdleFrame
    /\ config_token = NoToken
    /\ cli = NoCommand
    /\ earlier = NoEarlier

SpecClient == InitClient /\ [][NextClient]_vars

----------------------------------------------------------------------------
(* SpecRepeat: a caller resolves a path, keeps the entry, and resolves the *)
(* same path again, the other client changing the service between the     *)
(* calls or not                                                            *)

\* the paths the caller resolves: any, or the one whose entry it has kept
RepeatRefs ==
    IF earlier.valid THEN {PathRef(earlier.path)}
    ELSE {PathRef(p) : p \in OpPaths}

NextRepeat ==
    \/ \E x \in XsrfOutcomes : InitSession(x)
    \/ \E ref \in RepeatRefs : CallGetItem(ref)
    \/ \E status \in ListStatuses : ListRoot(status)
    \/ \E status \in ListStatuses : WalkList(status)
    \/ Keep
    \/ \E name \in EntryNames, dir \in RemoteDirIds(remote),
          kind \in {"File", "Directory"} : RemoteCreate(name, dir, kind)
    \/ \E k \in 1..Len(remote), name \in EntryNames : RemoteRename(k, name)
    \/ \E k \in 1..Len(remote) : RemoteDelete(k)

InitRepeat ==
    /\ remote = << >>
    /\ created = 0
    /\ access_token = "token"
    /\ xsrf_token = NoToken
    /\ frame = IdleFrame
    /\ config_token = NoToken
    /\ cli = NoCommand
    /\ earlier = NoEarlier

SpecRepeat == InitRepeat /\ [][NextRepeat]_vars

----------------------------------------------------------------------------
(* SpecRace: as SpecRepeat, with the other client changing the service    *)
(* between the listings of a walk too.  The entry of a walk that was      *)
(* raced is not kept: with earlier.valid and not earlier.changed, the     *)
(* path resolved in the tree as it was when the call began.               *)

NextRace ==
    \/ \E x \in XsrfOutcomes : InitSession(x)
    \/ \E ref \in RepeatRefs : CallGetItem(ref)
    \/ \E status \in ListStatuses : ListRoot(status)
    \/ \E status \in ListStatuses : WalkList(status)
    \/ ~frame.raced /\ Keep
    \/ Drop
    \/ \E name \in EntryNames, dir \in RemoteDirIds(remote),
          kind \in {"File", "Directory"} : RemoteCreate(name, dir, kind)
    \/ \E k \in 1..Len(remote), name \in EntryNames : RemoteRename(k, name)
    \/ \E k \in 1..Len(remote) : RemoteDelete(k)
    \/ \E name \in EntryNames, dir \in RemoteDirIds(remote),
          kind \in {"File", "Directory"} : RaceCreate(name, dir, kind)
    \/ \E k \in 1..Len(remote), name \in EntryNames : RaceRename(k, name)
    \/ \E k \in 1..Len(remote) : RaceDelete(k)

SpecRace == InitRepeat /\ [][NextRace]_vars

----------------------------------------------------------------------------
(* SpecCli: the commands of the command line, one after the other, on a   *)
(* service only they change                                               *)

NextCli ==
    \/ \E x \in XsrfOutcomes : InitSession(x)
    \/ \E c \in Commands : Run(c)
    \/ \E installed \in BOOLEAN : ImportPlaywright(installed)
    \/ \E o \in CallOutcomes : Launch(o)
    \/ \E o \in CallOutcomes : LoadPage(o)
    \/ \E o \in CallOutcomes : FillCredentials(o)
    \/ \E o \in CallOutcomes : ClickLogin(o)
    \/ \E visible \in BOOLEAN, o \in CallOutcomes : Verify(visible, o)
    \/ \E o \in CallOutcomes : Confirmed(o)
    \/ \E carries_token \in BOOLEAN : HandleResponse(carries_token)
    \/ \E o \in CallOutcomes : CloseBrowser(o)
    \/ \E o \in CallOutcomes : LeaveBrowser(o)
    \/ GetClient
    \/ Validated
    \/ LoggedIn
    \/ Finished
    \/ Exited
    \/ \E ref \in CliRefs : DeleteItem(ref)
    \/ \E status \in ListStatuses : ListRoot(status)
    \/ \E status \in ListStatuses : WalkList(status)
    \/ \E status \in ListStatuses : LsRequest(status)
    \/ \E status \in CallStatuses, k \in 0..MaxPages :
          GetRequest(status, k)
    \/ \E status \in UrlStatuses, w \in WriteOutcomes : UrlFetch(status, w)
    \/ \E status \in CallStatuses : MkdirRequest(status)
    \/ \E status \in CallStatuses : UploadApply(status)
    \/ \E status \in PutStatuses : UploadPut(status)
    \/ \E status \in CallStatuses : UploadFinish(status)
    \/ \E status \in CallStatuses : DeleteRequest(status)
    \/ \E status \in CallStatuses : CodeRequest(status)
    \/ \E status \in CallStatuses : LoginRequest(status)

InitCli ==
    /\ remote = << >>
    /\ created = 0
    /\ access_token = NoToken
    /\ xsrf_token = NoToken
    /\ frame = IdleFrame
    /\ config_token = NoToken
    /\ cli = NoCommand
    /\ earlier = NoEarlier

SpecCli == InitCli /\ [][NextCli]_vars

----------------------------------------------------------------------------
(* Properties.  What they say of a call is read off the call that has just *)
(* ended (frame.pc = "done"): its argument, its outcome, the requests it   *)
(* issued, and the remote tree, which under Spec is the tree the call saw. *)

Ended(op) == frame.pc = "done" /\ frame.op = op

EndedOk(op) == Ended(op) /\ frame.outcome.status = "ok"

\* errors of the session, the transport and the wire format: they say
\* nothing of the tree
CallErrors == {"AuthenticationError", "ApiError", "HTTPError", "KeyError"}

\* the segments of the path given to the call
ArgParts == StripRoot(PathParts(frame.arg.path))

ArgLast == ArgParts[Len(ArgParts)]

\* _get_item ended on a path other than "/" that has segments
Walked ==
    /\ Ended("_get_item")
    /\ frame.arg.tag = "str"
    /\ frame.arg.path # <<"/">>
    /\ ArgParts # << >>

IsLs(r) == r.ep = "ls"

\* the directory ids of the Lister calls of the call, in order
LsIds == LET ls == SelectSeq(frame.log, IsLs) IN [k \in 1..Len(ls) |-> ls[k].id]

NotFoundDirectory ==
    frame.outcome.err = "FileFolderNotFound" /\ frame.outcome.what = "Directory"

NotFoundFile ==
    frame.outcome.err = "FileFolderNotFound" /\ frame.outcome.what = "File"

\* the remote directory d holds a Directory (an entry) named name
HasDirectory(d, name) ==
    \E k \in 1..Len(remote) :
        /\ remote[k].directory_id = d
        /\ remote[k].file_name = name
        /\ remote[k].kind = "Directory"

HasEntry(d, name) ==
    \E k \in 1..Len(remote) :
        remote[k].directory_id = d /\ remote[k].file_name = name

HasFile(d, name) ==
    \E k \in 1..Len(remote) :
        /\ remote[k].directory_id = d
        /\ remote[k].file_name = name
        /\ remote[k].kind = "File"

\* the entry with this id is a Directory named name of the directory d
IsDirectoryOf(id, d, name) ==
    \E k \in 1..Len(remote) :
        /\ remote[k].id = id
        /\ remote[k].directory_id = d
        /\ remote[k].file_name = name
        /\ remote[k].kind = "Directory"

\* C1: _get_item("/") returns a Directory with id 0 whatever the root
\* listing holds, fails only for an error of the session or the transport,
\* and agrees with _get_directory_id("/"), which is 0.
C1_RootIsZero ==
    /\ (Ended("_get_item") /\ frame.arg = PathRef(<<"/">>)) =>
          IF frame.outcome.status = "ok"
          THEN /\ frame.outcome.entry.kind = "Directory"
               /\ frame.outcome.entry.id = 0
          ELSE frame.outcome.err \in CallErrors
    /\ (Ended("_get_directory_id") /\ frame.arg = PathRef(<<"/">>)) =>
          frame.outcome.status = "ok" /\ frame.outcome.id = 0

\* _get_item("/") returned over a root listing that holds a File and a
\* Directory
C1_Witness ==
    /\ EndedOk("_get_item")
    /\ frame.arg = PathRef(<<"/">>)
    /\ frame.outcome.entry.id = 0
    /\ \E a, b \in 1..Len(remote) :
          /\ remote[a].directory_id = 0 /\ remote[a].kind = "File"
          /\ remote[b].directory_id = 0 /\ remote[b].kind = "Directory"

\* C2: a walk that fails on a directory segment reports the first segment
\* that its parent's listing lacks, with the prefix "/" + the segments up to
\* it; every earlier segment was found, and the listing of the parent is the
\* last Lister call of the walk.
C2_FirstMissingSegment ==
    /\ (Walked /\ NotFoundDirectory) =>
          LET k == Len(LsIds) IN
          /\ k \in 1..Len(DirParts(ArgParts))
          /\ frame.outcome.seg = ArgParts[k]
          /\ frame.outcome.prefix = <<"/">> \o JoinSlash(SubSeq(ArgParts, 1, k))
          /\ LsIds[1] = 0
          /\ ~HasDirectory(LsIds[k], ArgParts[k])
          /\ \A j \in 1..(k - 1) : IsDirectoryOf(LsIds[j + 1], LsIds[j], ArgParts[j])
          /\ frame.log[Len(frame.log)] = Req("ls", LsIds[k])
    /\ (Walked /\ frame.arg.path = <<"/">> \o Ghost \o <<"/">> \o Docs
               /\ frame.outcome.err \notin CallErrors) =>
          /\ frame.outcome = NotFound("Directory", Ghost, <<"/">> \o Ghost)
          /\ Len(LsIds) = 1

\* "/Docs/Ghost/report.pdf" failed on its middle segment, Docs being there
C2_Witness ==
    /\ Walked
    /\ frame.arg.path = <<"/">> \o Docs \o <<"/">> \o Ghost \o <<"/">> \o ReportPdf
    /\ frame.outcome = NotFound("Directory", Ghost, <<"/">> \o Docs \o <<"/">> \o Ghost)
    /\ Len(LsIds) = 2

\* C3: a path whose final segment has no "." never resolves to a File; when
\* the directory reached holds no Directory of that name the call fails
\* with NotFound for that segment, also when a File of that name is there.
C3_NoDotNeverFile ==
    (Walked /\ ~HasDot(ArgLast)) =>
        /\ frame.outcome.status = "ok" => frame.outcome.entry.kind = "Directory"
        /\ (/\ Len(LsIds) = Len(ArgParts)
            /\ ~HasDirectory(LsIds[Len(ArgParts)], ArgLast)
            /\ frame.outcome.err \notin CallErrors) =>
               /\ NotFoundDirectory
               /\ frame.outcome.seg = ArgLast

\* "/Docs/Docs" failed where /Docs holds a File named Docs and no Directory
\* of that name
C3_Witness ==
    /\ Walked
    /\ frame.arg.path = <<"/">> \o Docs \o <<"/">> \o Docs
    /\ Len(LsIds) = 2
    /\ HasFile(LsIds[2], Docs)
    /\ ~HasDirectory(LsIds[2], Docs)
    /\ NotFoundDirectory
    /\ frame.outcome.seg = Docs

\* the original statement of C5: _get_directory_id on an already-resolved
\* entry, File or Directory, returns the entry's id and issues no request.
C5_AnyEntryPassesThrough ==
    (Ended("_get_directory_id") /\ frame.arg.tag = "entry") =>
        /\ frame.outcome.status = "ok"
        /\ frame.outcome.id = frame.arg.entry.id
        /\ frame.log = << >>

\* C5 (amended): _get_directory_id on an already-resolved Directory returns
\* its id, on an already-resolved File it fails with ValueError; neither
\* issues a Lister call or any other request.
C5_DirectoryPassesThrough ==
    (Ended("_get_directory_id") /\ frame.arg.tag = "entry") =>
        /\ frame.log = << >>
        /\ frame.arg.entry.kind = "Directory" =>
              /\ frame.outcome.status = "ok"
              /\ frame.outcome.id = frame.arg.entry.id
        /\ frame.arg.entry.kind = "File" =>
              frame.outcome = Error("ValueError")

\* _get_directory_id returned the id 7 of the Directory object it was given
C5_Witness ==
    /\ EndedOk("_get_directory_id")
    /\ frame.arg.tag = "entry"
    /\ frame.arg.entry.kind = "Directory"
    /\ frame.arg.entry.id = 7
    /\ frame.outcome.id = 7
    /\ frame.log = << >>

\* position in the service's order of the entry with this id
PositionOf(id) == CHOOSE k \in 1..Len(remote) : remote[k].id = id

\* no Directory named name of the directory d is listed before position p
FirstDirectoryAt(p, d, name) ==
    \A q \in 1..(p - 1) :
        ~(/\ remote[q].directory_id = d
          /\ remote[q].file_name = name
          /\ remote[q].kind = "Directory")

\* C6: every directory a walk moves to is the Directory of that name listed
\* first in its parent, whatever Files of that name are listed before it and
\* whatever Directories of that name after it; duplicate names are no error:
\* a walk fails on a segment only when no Directory has that name.
C6_FirstListedDirectoryWins ==
    Walked =>
        /\ \A j \in 1..(Len(LsIds) - 1) :
              /\ IsDirectoryOf(LsIds[j + 1], LsIds[j], ArgParts[j])
              /\ FirstDirectoryAt(PositionOf(LsIds[j + 1]), LsIds[j], ArgParts[j])
        /\ (frame.outcome.status = "ok" /\ ~IsFile(ArgParts)) =>
              /\ Len(LsIds) = Len(ArgParts) + 1
              /\ frame.outcome.entry = remote[PositionOf(LsIds[Len(LsIds)])]
        /\ NotFoundDirectory =>
              ~HasDirectory(LsIds[Len(LsIds)], frame.outcome.seg)

\* "/Docs" resolved to the first listed of two Directories named Docs, a
\* File named Docs being listed before both
C6_Witness ==
    /\ Walked
    /\ frame.arg.path = <<"/">> \o Docs
    /\ Len(remote) = 3
    /\ \A k \in 1..3 : remote[k].file_name = Docs /\ remote[k].directory_id = 0
    /\ remote[1].kind = "File"
    /\ remote[2].kind = "Directory"
    /\ remote[3].kind = "Directory"
    /\ frame.outcome.status = "ok"
    /\ frame.outcome.entry = remote[2]

\* no entry named name of the directory d is listed before position p
FirstEntryAt(p, d, name) ==
    \A q \in 1..(p - 1) :
        ~(remote[q].directory_id = d /\ remote[q].file_name = name)

\* the tree / -> Docs (id 5) -> report.pdf (id 42)
ScenarioTree ==
    <<Entry(42, ReportPdf, 5, "File"), Entry(5, Docs, 0, "Directory")>>

\* C7: when the final segment has a "." and the directory segments before
\* it were matched, _get_item returns the first entry of that name, File or
\* Directory, in the last listing, and fails with NotFound(final segment,
\* path of the directory searched) when the listing has none; on the tree
\* / -> Docs (5) -> report.pdf (42), "/Docs/report.pdf" gives the entry 42,
\* and without report.pdf it fails with NotFound("report.pdf", "/Docs").
C7_FileLookup ==
    /\ (Walked /\ IsFile(ArgParts) /\ Len(LsIds) = Len(ArgParts)
               /\ frame.outcome.err \notin CallErrors) =>
          LET d == LsIds[Len(LsIds)] IN
          IF HasEntry(d, ArgLast)
          THEN /\ frame.outcome.status = "ok"
               /\ frame.outcome.entry.file_name = ArgLast
               /\ frame.outcome.entry.directory_id = d
               /\ \E p \in 1..Len(remote) :
                     /\ remote[p] = frame.outcome.entry
                     /\ FirstEntryAt(p, d, ArgLast)
          ELSE frame.outcome =
                  NotFound("File", ArgLast,
                           <<"/">> \o JoinSlash(SubSeq(ArgParts, 1, Len(ArgParts) - 1)))
    /\ (Walked /\ (frame.outcome.status = "ok" \/ NotFoundFile)
               /\ IsFile(ArgParts)) =>
          Len(LsIds) = Len(ArgParts)
    /\ (Walked /\ frame.arg.path = <<"/">> \o Docs \o <<"/">> \o ReportPdf
               /\ frame.outcome.err \notin CallErrors) =>
          /\ remote = ScenarioTree => frame.outcome.entry.id = 42
          /\ remote = <<Entry(5, Docs, 0, "Directory")>> =>
                frame.outcome = NotFound("File", ReportPdf, <<"/">> \o Docs)

\* "/Docs/report.pdf" resolved to the entry 42 on the tree of the scenario
C7_Witness ==
    /\ Walked
    /\ frame.arg.path = <<"/">> \o Docs \o <<"/">> \o ReportPdf
    /\ remote = ScenarioTree
    /\ frame.outcome = ReturnEntry(Entry(42, ReportPdf, 5, "File"))

\* a request to the delete endpoint is among the requests of the call
DeleteIssued == \E k \in 1..Len(frame.log) : frame.log[k].ep = "delete"

\* the items resolved so far are not all in the directory of the first
MixedParents ==
    \E j \in 1..Len(frame.to_delete) :
        frame.to_delete[j].directory_id # frame.to_delete[1].directory_id

\* C4: delete of a list issues its delete request only when every item was
\* resolved and all of them have the directory_id of the first; a list with
\* items of different directories fails with FileFolderNotFound, and a list
\* with an item that does not resolve fails, without a delete request.
C4_NoDeleteAcrossDirectories ==
    (frame.op = "delete" /\ frame.is_list) =>
        /\ DeleteIssued => frame.remaining = 0 /\ ~MixedParents
        /\ (frame.remaining = 0 /\ MixedParents) =>
              /\ frame.pc = "done"
              /\ frame.outcome.err = "FileFolderNotFound"
              /\ frame.outcome.what = "Files are not in the same directory"
        /\ (frame.pc = "done" /\ frame.remaining > 0) =>
              frame.outcome.status = "error"

\* delete of a list of three resolved items ended: the first two are in one
\* directory, the third in another
C4_Witness ==
    /\ Ended("delete")
    /\ frame.is_list
    /\ Len(frame.to_delete) = 3
    /\ frame.to_delete[2].directory_id = frame.to_delete[1].directory_id
    /\ frame.to_delete[3].directory_id # frame.to_delete[1].directory_id
    /\ frame.to_delete[3].directory_id # None
    /\ frame.outcome.err = "FileFolderNotFound"
    /\ ~DeleteIssued

\* the operations that need the access token
RemoteOps == {"ls", "get", "get_pdf", "get_png", "mkdir", "put", "delete"}

\* C8: without an access token every remote operation ends at once with
\* AuthenticationError, issues no request (no csrf fetch either) and leaves
\* the tokens of the client and the remote tree as they were.
C8_NoTokenNoRequest ==
    /\ []((frame.op \in RemoteOps /\ access_token = NoToken) =>
             (/\ frame.pc = "done"
              /\ frame.outcome = Error("AuthenticationError")
              /\ frame.log = << >>))
    /\ [][(access_token = NoToken /\ frame'.op \in RemoteOps) =>
             UNCHANGED <<access_token, xsrf_token, remote, created>>]_vars

\* put ended with AuthenticationError on a client that holds an anti-forgery
\* token and no access token
C8_Witness ==
    /\ Ended("put")
    /\ access_token = NoToken
    /\ xsrf_token # NoToken
    /\ frame.outcome = Error("AuthenticationError")
    /\ frame.log = << >>

----------------------------------------------------------------------------
(* C9 (SpecCli) *)

\* the subcommands the statement is about
Subcommands == {"login", "ls", "get", "mkdir", "put", "rm"}

\* C9: a command among login, ls, get, mkdir, put and rm that has ended
\* ended with exit code 0 after its operation succeeded, or with exit code 1
\* after one of its except blocks printed its message; no exception left
\* the command uncaught.
C9_EveryErrorCaught ==
    (cli.pc = "exit" /\ cli.cmd \in Subcommands) =>
        /\ cli.uncaught = ""
        /\ \/ cli.exit_code = 0 /\ frame.outcome.status = "ok"
           \/ cli.exit_code = 1 /\ cli.echoed \in ErrorMessages

\* what the commands do: the errors of the call in the try block are all
\* caught; an exception leaves the command only from the ls() of get_client
\* (anything but AuthenticationError and ApiError), from login (anything
\* but AuthenticationError) or from the browser session of login-browser
C9_Escapes ==
    (cli.pc = "exit" /\ cli.uncaught # "") =>
        /\ cli.exit_code = 1
        /\ \/ /\ cli.cmd = "login-browser"
              /\ cli.uncaught = "PlaywrightError"
           \/ /\ cli.cmd \in Subcommands
              /\ cli.uncaught = frame.outcome.err
              /\ \/ frame.op = "ls" /\ cli.uncaught \in {"HTTPError", "KeyError"}
                 \/ frame.op = "login" /\ cli.uncaught \in {"HTTPError", "ApiError"}

----------------------------------------------------------------------------
(* C10 (SpecRepeat) *)

\* the call that has ended resolved the path whose entry was kept
Repeated ==
    /\ Ended("_get_item")
    /\ earlier.valid
    /\ frame.arg = PathRef(earlier.path)

ListedAgain == \E k \in 1..Len(frame.log) : frame.log[k].ep = "ls"

\* C10: a second _get_item of a path whose entry was kept lists from the
\* service again and never reports a missing segment or file while the tree
\* is unchanged; when it returns, it returns the kept entry's id if the tree
\* is unchanged, and in any case an entry of the tree as it is now, named as
\* the final segment is, not an entry of an earlier listing.
C10_NoStateBetweenCalls ==
    Repeated =>
        /\ frame.outcome.status = "ok" =>
              /\ ListedAgain
              /\ ~earlier.changed => frame.outcome.entry.id = earlier.entry.id
              /\ frame.outcome.entry \in HeldEntries
              /\ frame.outcome.entry # RootEntry =>
                    frame.outcome.entry.file_name = ArgLast
        /\ frame.outcome.err = "FileFolderNotFound" => earlier.changed
        /\ ~earlier.changed =>
              frame.outcome.err \in {"", "ApiError", "HTTPError", "KeyError"}

\* the second resolution of an unchanged tree walked two listings again
\* and returned the entry kept
C10_Witness ==
    /\ Repeated
    /\ ~earlier.changed
    /\ frame.outcome.status = "ok"
    /\ frame.outcome.entry.id = earlier.entry.id
    /\ Len(ArgParts) = 2
    /\ Len(frame.log) >= 2

\* the second resolution followed a change of the tree and returned another
\* entry than the one kept
C10_Reflects ==
    /\ Repeated
    /\ earlier.changed
    /\ frame.outcome.status = "ok"
    /\ frame.outcome.entry.id # earlier.entry.id

\* the second resolution followed the delete or rename of the entry kept and
\* found it missing
C10_Missing ==
    /\ Repeated
    /\ earlier.changed
    /\ frame.outcome.err = "FileFolderNotFound"
    /\ earlier.entry \notin HeldEntries

----------------------------------------------------------------------------
(* C11 (Spec) *)

\* _get_item ended on a str path without segments: "/", "", ".", "/." ...
RootPath ==
    /\ Ended("_get_item")
    /\ frame.arg.tag = "str"
    /\ ArgParts = << >>

\* C11 as stated: _get_item of "/" or of an empty path makes no Lister call.
C11_RootNeverLists == RootPath => LsIds = << >>

\* C11: _get_item of a path without segments other than "/" itself returns
\* the root Directory with no request at all; _get_item("/") lists the root
\* once (at most one Lister call, of directory 0, none without an access
\* token) and returns the root Directory only when that listing was
\* answered; _get_directory_id of "/", None or 0 gives 0 with no request.
C11_RootListsOnlyForSlash ==
    /\ (RootPath /\ frame.arg.path # <<"/">>) =>
          frame.outcome = ReturnEntry(RootEntry) /\ frame.log = << >>
    /\ (RootPath /\ frame.arg.path = <<"/">>) =>
          /\ LsIds \in {<< >>, <<0>>}
          /\ access_token = NoToken =>
                frame.outcome = Error("AuthenticationError") /\ frame.log = << >>
          /\ frame.outcome.status = "ok" =>
                frame.outcome = ReturnEntry(RootEntry) /\ LsIds = <<0>>
          /\ frame.outcome.status = "error" =>
                frame.outcome.err \in CallErrors
    /\ (Ended("_get_directory_id") /\ IsRootRef(frame.arg)) =>
          frame.outcome = ReturnId(0) /\ frame.log = << >>

\* _get_item("/") returned the root Directory after it listed a root that
\* holds entries
C11_Witness ==
    /\ RootPath
    /\ frame.arg.path = <<"/">>
    /\ frame.outcome = ReturnEntry(RootEntry)
    /\ LsIds = <<0>>
    /\ Listing(remote, 0) # << >>

----------------------------------------------------------------------------
(* C12 (Spec) *)

\* the directory segments of the path given to the call
ArgDirParts == DirParts(ArgParts)

\* the requests of the call other than the fetches of the csrf token
Posts == SelectSeq(frame.log, LAMBDA r : r.ep # "csrf")

\* C12 as stated: a successful resolution of a path with n directory
\* segments makes exactly n Lister calls.
C12_OneListPerDirectorySegment ==
    (Walked /\ frame.outcome.status = "ok") => Len(LsIds) = Len(ArgDirParts)

\* C12: a successful resolution of a path with n directory segments makes
\* exactly n + 1 Lister calls and no other request: the root first, then,
\* in order, the directory matched for each directory segment, the last one
\* included; the lookup of a file-classified final segment reads the last
\* of these listings and makes no call of its own.
C12_ListsRootAndEachDirectory ==
    (Walked /\ frame.outcome.status = "ok") =>
        /\ Len(LsIds) = Len(ArgDirParts) + 1
        /\ Len(Posts) = Len(LsIds)
        /\ LsIds[1] = 0
        /\ \A j \in 1..Len(ArgDirParts) :
              IsDirectoryOf(LsIds[j + 1], LsIds[j], ArgDirParts[j])
        /\ IsFile(ArgParts) =>
              /\ frame.outcome.entry.directory_id = LsIds[Len(LsIds)]
              /\ frame.log[Len(frame.log)] = Req("ls", LsIds[Len(LsIds)])
        /\ ~IsFile(ArgParts) =>
              frame.outcome.entry.id = LsIds[Len(LsIds)]

\* a file in a directory below a directory was resolved with three Lister
\* calls
C12_Witness ==
    /\ Walked
    /\ frame.outcome.status = "ok"
    /\ IsFile(ArgParts)
    /\ Len(ArgDirParts) = 2
    /\ Len(LsIds) = 3
    /\ frame.outcome.entry.kind = "File"

\* a directory below a directory was resolved with three Lister calls
C12_DirectoryWitness ==
    /\ Walked
    /\ frame.outcome.status = "ok"
    /\ ~IsFile(ArgParts)
    /\ Len(ArgDirParts) = 2
    /\ Len(LsIds) = 3

----------------------------------------------------------------------------
(* C13 (SpecRace) *)

\* the path of the call resolved in the tree as it was when the call began
ExistedAtStart == Repeated /\ ~earlier.changed

\* C13: whatever the other client does between the requests of a walk, the
\* walk lists no directory twice and makes at most one listing for the root
\* and one for each directory segment; a walk that ends with a directory not
\* found ends right after the listing of the directory it reached, in which
\* the segment it reports is absent, having found every segment before it;
\* a path that resolved when the call began fails with not-found only if
\* the tree was changed during the walk.
C13_NoRetryNoRelist ==
    Walked =>
        /\ \A j, k \in 1..Len(LsIds) : LsIds[j] = LsIds[k] => j = k
        /\ Len(LsIds) <= Len(ArgDirParts) + 1
        /\ Len(Posts) = Len(LsIds)
        /\ NotFoundDirectory =>
              LET k == Len(LsIds) IN
              /\ k >= 1
              /\ frame.outcome.seg = ArgDirParts[k]
              /\ frame.outcome.prefix = PathSoFar(ArgParts, k)
              /\ ~HasDirectory(LsIds[k], ArgDirParts[k])
              /\ frame.log[Len(frame.log)] = Req("ls", LsIds[k])
        /\ NotFoundFile =>
              /\ Len(LsIds) = Len(ArgDirParts) + 1
              /\ ~HasEntry(LsIds[Len(LsIds)], ArgLast)
              /\ frame.log[Len(frame.log)] = Req("ls", LsIds[Len(LsIds)])
        /\ (ExistedAtStart /\ frame.outcome.err = "FileFolderNotFound") =>
              frame.raced

\* a path of two directories that resolved when the call began failed at
\* its second segment, after the listing of the root and of the first
\* directory, the second directory having been renamed or deleted in between
C13_Witness ==
    /\ Walked
    /\ ExistedAtStart
    /\ frame.raced
    /\ NotFoundDirectory
    /\ Len(ArgDirParts) = 2
    /\ frame.outcome.seg = ArgDirParts[2]
    /\ Len(LsIds) = 2
    /\ earlier.entry \notin HeldEntries

\* a file that was there when the call began was not found in its
\* directory's listing
C13_FileWitness ==
    /\ Walked
    /\ ExistedAtStart
    /\ frame.raced
    /\ NotFoundFile
    /\ Len(LsIds) = 2

----------------------------------------------------------------------------
(* C14 (SpecClient) *)

\* the requests a step adds to those of the call in progress
NewRequests ==
    IF frame'.pc = "idle" THEN << >>
    ELSE SubSeq(frame'.log, Len(frame.log) + 1, Len(frame'.log))

IsCsrf(r) == r.ep = "csrf"

\* requests that go through _api_call
IsApiPost(r) == r.ep \notin {"csrf", "url", "s3_put"}

\* C14: once the XSRF token is held it is never fetched again nor replaced,
\* so that it is fetched successfully at most once; no request of the API is
\* posted while it is not held; while it is not held, the next step of a
\* call of the API is the fetch alone, a fetch that fails ends the call with
\* an error and leaves the token not held, and a fetch that succeeds leaves
\* the token held and the call where it was, about to post.
C14_SessionInitialisedOnce ==
    [][LET new == NewRequests
       IN  /\ xsrf_token # NoToken =>
                 /\ xsrf_token' = xsrf_token
                 /\ SelectSeq(new, IsCsrf) = << >>
           /\ SelectSeq(new, IsApiPost) # << >> => xsrf_token # NoToken
           /\ (xsrf_token = NoToken /\ frame.pc \in ApiCallPcs /\ frame' # frame) =>
                 /\ new = <<Req("csrf", None)>>
                 /\ \/ /\ xsrf_token' # NoToken
                       /\ frame'.pc = frame.pc
                    \/ /\ xsrf_token' = NoToken
                       /\ frame'.pc = "done"
                       /\ frame'.outcome.err \in {"ApiError", "HTTPError"}
      ]_vars

\* a call has posted two requests with the token an earlier call of the
\* client fetched
C14_Witness ==
    /\ xsrf_token # NoToken
    /\ Len(SelectSeq(frame.log, IsApiPost)) >= 2
    /\ SelectSeq(frame.log, IsCsrf) = << >>

----------------------------------------------------------------------------
(* C15 (SpecClient) *)

IsUpload(r) == r.ep \in {"upload_apply", "s3_put", "upload_finish"}

\* the requests of put after those of _get_directory_id, in order
Uploads == LET u == SelectSeq(frame.log, IsUpload) IN [k \in 1..Len(u) |-> u[k].ep]

\* apply, then the direct PUT, then finish: the direct PUT is made only
\* after apply reported success and finish only after the direct PUT
\* returned 200 (no request follows a step that failed)
PutInOrder ==
    /\ Uploads \in {<< >>, <<"upload_apply">>, <<"upload_apply", "s3_put">>,
                    <<"upload_apply", "s3_put", "upload_finish">>}
    /\ frame.pc = "s3_put" => Uploads = <<"upload_apply">>
    /\ frame.pc = "finish_req" => Uploads = <<"upload_apply", "s3_put">>
    /\ (frame.pc = "done" /\ frame.outcome.status = "ok") =>
          Uploads = <<"upload_apply", "s3_put", "upload_finish">>

\* put ended with an error after apply or after the direct PUT
UploadFailed ==
    /\ Ended("put")
    /\ frame.outcome.status = "error"
    /\ Uploads \in {<<"upload_apply">>, <<"upload_apply", "s3_put">>}

\* C15: put makes its requests in the order apply, direct PUT, finish, each
\* only after the one before succeeded, and a put that fails at apply or
\* at the direct PUT fails with ApiError (with an error of the transport
\* when the request itself failed), finish never being issued.
C15_PutFailsWithApiError ==
    frame.op = "put" =>
        /\ PutInOrder
        /\ UploadFailed => frame.outcome.err \in {"ApiError", "HTTPError"}

\* what put does: the order holds, and the one failure that is neither
\* ApiError nor an error of the transport is the AttributeError raised
\* after the direct PUT, by "data.text" on the dict data
C15_AttributeError ==
    frame.op = "put" =>
        /\ PutInOrder
        /\ (UploadFailed /\ frame.outcome.err \notin {"ApiError", "HTTPError"}) =>
              /\ frame.outcome.err = "AttributeError"
              /\ Uploads = <<"upload_apply", "s3_put">>

============================================================================
